---- MODULE Spec2Model ----
(***************************************************************************)
(* cdk-agc: garbage collection of a CDK output directory (cleanupAssets)   *)
(* and of temporary CDK directories (cleanupTempDirectories).              *)
(*                                                                         *)
(* Strings are sequences of tokens.  A token is an indivisible piece of    *)
(* text ("asset.", ".assets.json", "/", "a", ...); no token other than     *)
(* "asset." contains the text "asset.", and "/" occurs only as the token   *)
(* "/".  startsWith, endsWith, the regular expression of                   *)
(* extractDockerImageHash, path.join and path.dirname are computed on      *)
(* these sequences the way Node computes them on characters.               *)
(***************************************************************************)
EXTENDS Integers, Sequences, FiniteSets, TLC

(***************************************************************************)
(* String helpers                                                          *)
(***************************************************************************)
StartsWith(s, p) ==
  Len(s) >= Len(p) /\ SubSeq(s, 1, Len(p)) = p

EndsWith(s, p) ==
  Len(s) >= Len(p) /\ SubSeq(s, Len(s) - Len(p) + 1, Len(s)) = p

Slash == "/"

\* s.split("/"): the segments between the separators
RECURSIVE SplitAcc(_, _, _, _)
SplitAcc(s, i, cur, acc) ==
  IF i > Len(s) THEN Append(acc, cur)
  ELSE IF s[i] = Slash THEN SplitAcc(s, i + 1, <<>>, Append(acc, cur))
  ELSE SplitAcc(s, i + 1, Append(cur, s[i]), acc)

Split(s) == SplitAcc(s, 1, <<>>, <<>>)

\* segments joined by "/"
RECURSIVE JoinSegs(_)
JoinSegs(segs) ==
  IF segs = <<>> THEN <<>>
  ELSE IF Len(segs) = 1 THEN segs[1]
  ELSE segs[1] \o <<Slash>> \o JoinSegs(Tail(segs))

\* Node's normalizeString: drops "" and ".", resolves ".." against the
\* segment before it, keeps a leading ".." only when allowAboveRoot
RECURSIVE NormSegs(_, _, _, _)
NormSegs(segs, i, st, allowAboveRoot) ==
  IF i > Len(segs) THEN st
  ELSE LET g == segs[i] IN
    IF g = <<>> \/ g = <<".">> THEN NormSegs(segs, i + 1, st, allowAboveRoot)
    ELSE IF g = <<"..">> THEN
      IF st # <<>> /\ st[Len(st)] # <<"..">>
        THEN NormSegs(segs, i + 1, SubSeq(st, 1, Len(st) - 1), allowAboveRoot)
      ELSE IF allowAboveRoot
        THEN NormSegs(segs, i + 1, Append(st, g), allowAboveRoot)
      ELSE NormSegs(segs, i + 1, st, allowAboveRoot)
    ELSE NormSegs(segs, i + 1, Append(st, g), allowAboveRoot)

\* path.normalize (posix)
Normalize(s) ==
  IF s = <<>> THEN <<".">>
  ELSE LET isAbsolute == s[1] = Slash
           trailingSeparator == s[Len(s)] = Slash
           p == JoinSegs(NormSegs(Split(s), 1, <<>>, ~isAbsolute))
       IN IF p = <<>>
            THEN (IF isAbsolute THEN <<Slash>>
                  ELSE IF trailingSeparator THEN <<".", Slash>> ELSE <<".">>)
          ELSE (IF isAbsolute THEN <<Slash>> ELSE <<>>) \o p
               \o (IF trailingSeparator THEN <<Slash>> ELSE <<>>)

\* path.join(a, b) (posix): the non-empty arguments joined by "/", normalized
PathJoin(a, b) ==
  LET joined == IF a = <<>> THEN b
                ELSE IF b = <<>> THEN a
                ELSE a \o <<Slash>> \o b
  IN IF joined = <<>> THEN <<".">> ELSE Normalize(joined)

\* index of the last "/" of s, 0 when there is none
RECURSIVE LastSlash(_, _)
LastSlash(s, i) ==
  IF i = 0 THEN 0 ELSE IF s[i] = Slash THEN i ELSE LastSlash(s, i - 1)

\* path.dirname (posix) of a path without trailing separator
Dirname(p) ==
  LET k == LastSlash(p, Len(p))
  IN IF k = 0 THEN <<".">>
     ELSE IF k = 1 THEN <<Slash>>
     ELSE SubSeq(p, 1, k - 1)

(***************************************************************************)
(* Program constants                                                       *)
(***************************************************************************)
AssetPrefix == <<"asset.">>
AssetsJsonSuffix == <<".assets.json">>
DockerfileName == <<"Dockerfile">>
MsPerHour == 3600000

\* options.outdir (the CLI default)
OutDir == <<"cdk.out">>

\* os.tmpdir()
TmpDir == <<"/", "tmp">>

\* the name prefixes of temporary CDK directories
TempPrefixes == { <<"cdk.out">>, <<"cdk-">>, <<".cdk">> }

(***************************************************************************)
(* Bounds of the model                                                     *)
(***************************************************************************)
MaxKeepHours == 1
MaxTicks == 1
MaxRuns == 2
MaxArgLen == 3
MaxVanish == 1

(***************************************************************************)
(* The file system: a function from path strings to nodes.  A node has a   *)
(* kind, a last-modified time (ms), a byte size and, for a file, what      *)
(* JSON.parse makes of its text: ok = FALSE when it does not parse,        *)
(* otherwise the source.path values of its "files" entries and the         *)
(* source.directory values of its "dockerImages" entries (<<>> is an       *)
(* entry without the value).                                               *)
(***************************************************************************)
NoJson == [ok |-> FALSE, files |-> {}, dockerImages |-> {}]

DirNode(m) == [kind |-> "dir", mtime |-> m, size |-> 0, content |-> NoJson]

FileNode(m, sz) == [kind |-> "file", mtime |-> m, size |-> sz, content |-> NoJson]

JsonNode(m, sz, files, images) ==
  [kind |-> "file", mtime |-> m, size |-> sz,
   content |-> [ok |-> TRUE, files |-> files, dockerImages |-> images]]

\* neither a file nor a directory: a FIFO, a socket, a device
OtherNode(m, sz) == [kind |-> "other", mtime |-> m, size |-> sz, content |-> NoJson]

Exists(f, p) == p \in DOMAIN f

IsDirectory(f, p) == Exists(f, p) /\ f[p].kind = "dir"

\* the order in which the operating system lists names
ListingOrder ==
  << <<"manifest.json">>, <<"asset.", "b">>, <<"tree.json">>, <<"cdk.out">>,
     <<"Stack", ".template.json">>, <<"Stack", ".assets.json">>,
     <<"asset.", "a">>, <<"notes.txt">>, <<"sub">>,
     <<"asset.", "s", ".assets.json">>, <<"asset.", "f">>,
     <<"Nested", ".assets.json">>, <<"asset.", "c">>, <<"inner.txt">>,
     <<"Dockerfile">>, <<"Old", ".assets.json">>,
     <<"cdk.out", "Ab">>, <<"other">>, <<".cdk", "y">>, <<"cdk.out", ".txt">>,
     <<"cdk-", "x">>, <<"Bad", ".assets.json">>, <<"pipe">>, <<"deep">> >>

\* fs.readdir(dir): the names of the direct children of dir
Readdir(f, dir) ==
  SelectSeq(ListingOrder, LAMBDA n : Exists(f, PathJoin(dir, n)))

Range(s) == { s[i] : i \in 1..Len(s) }

\* fs.rm(p, {recursive: true, force: true})
RmRecursive(f, p) ==
  [q \in { r \in DOMAIN f : r # p /\ ~StartsWith(r, p \o <<Slash>>) } |-> f[q]]

RECURSIVE SumSeq(_)
SumSeq(s) == IF s = <<>> THEN 0 ELSE Head(s) + SumSeq(Tail(s))

\* faulty variant of lines 14-20: the subdirectories are not descended into
CalculateSize_OneLevel(f, itemPath) ==
  IF f[itemPath].kind = "file" THEN f[itemPath].size
  ELSE IF f[itemPath].kind = "dir" THEN
    LET names == Readdir(f, itemPath)
    IN SumSeq([i \in 1..Len(names) |->
                 IF f[PathJoin(itemPath, names[i])].kind = "file"
                   THEN f[PathJoin(itemPath, names[i])].size ELSE 0])
  ELSE 0

\* calculateSize: a file's byte length, the sum over a directory's entries
RECURSIVE CalculateSize(_, _)
CalculateSize(f, itemPath) ==
  IF f[itemPath].kind = "file" THEN f[itemPath].size
  ELSE IF f[itemPath].kind = "dir" THEN
    LET names == Readdir(f, itemPath)
    IN SumSeq([i \in 1..Len(names) |-> CalculateSize(f, PathJoin(itemPath, names[i]))])
  ELSE 0

(***************************************************************************)
(* collectAssetPaths                                                       *)
(***************************************************************************)
\* the paths one descriptor file adds: every source.path and
\* source.directory joined to the directory of the descriptor file
DescriptorPaths(f, itemPath) ==
  IF ~f[itemPath].content.ok THEN {}
  ELSE { PathJoin(Dirname(itemPath), v) :
           v \in (f[itemPath].content.files \cup f[itemPath].content.dockerImages)
                   \ {<<>>} }

\* faulty variant of lines 110-115: subdirectories are not scanned
CollectAssetPaths_TopLevelOnly(f, dirPath) ==
  UNION { LET itemPath == PathJoin(dirPath, name)
          IN IF IsDirectory(f, itemPath) THEN {}
             ELSE IF ~EndsWith(name, AssetsJsonSuffix) THEN {}
             ELSE DescriptorPaths(f, itemPath)
        : name \in Range(Readdir(f, dirPath)) }

RECURSIVE CollectAssetPaths(_, _)
CollectAssetPaths(f, dirPath) ==
  UNION { LET itemPath == PathJoin(dirPath, name)
          IN IF IsDirectory(f, itemPath) THEN CollectAssetPaths(f, itemPath)
             ELSE IF ~EndsWith(name, AssetsJsonSuffix) THEN {}
             ELSE DescriptorPaths(f, itemPath)
        : name \in Range(Readdir(f, dirPath)) }

\* lines 122-124: the descriptor files at or below dirPath whose readFile or
\* JSON.parse throws
RECURSIVE ParseFailures(_, _)
ParseFailures(f, dirPath) ==
  UNION { LET itemPath == PathJoin(dirPath, name)
          IN IF IsDirectory(f, itemPath) THEN ParseFailures(f, itemPath)
             ELSE IF ~EndsWith(name, AssetsJsonSuffix) THEN {}
             ELSE IF f[itemPath].content.ok THEN {} ELSE {itemPath}
        : name \in Range(Readdir(f, dirPath)) }

\* faulty variant of lines 148-151: the error is thrown again
CatchParseError_Rethrow(failures) == failures

\* lines 148-151: the catch clause warns and lets no error out of the loop
CatchParseError(failures) == {}

(***************************************************************************)
(* docker-cleanup                                                          *)
(***************************************************************************)
\* collectDockerImageAssetPaths: the entries that are directories holding
\* a Dockerfile
CollectDockerImageAssetPaths(f, assetEntries, outdir) ==
  { PathJoin(outdir, assetEntries[i]) : i \in
      { j \in 1..Len(assetEntries) :
          /\ IsDirectory(f, PathJoin(outdir, assetEntries[j]))
          /\ Exists(f, PathJoin(PathJoin(outdir, assetEntries[j]), DockerfileName)) } }

NoHash == <<>>

\* extractDockerImageHash: /asset\.(.+)/, the text after the first "asset."
\* that is followed by at least one character; NoHash stands for null
ExtractDockerImageHash(assetPath) ==
  LET starts == { i \in 1..(Len(assetPath) - 1) : assetPath[i] = "asset." }
  IN IF starts = {} THEN NoHash
     ELSE LET i == CHOOSE k \in starts : \A m \in starts : k <= m
          IN SubSeq(assetPath, i + 1, Len(assetPath))

\* the tag CDK gives the image it builds locally for an asset hash
CdkAssetTag(hash) == <<"cdkasset-">> \o hash \o <<":", "latest">>

\* faulty variant of the tag filter: any repository tagged with the hash
MatchesHash_AnyRepository(tag, hash) ==
  \/ tag = CdkAssetTag(hash)
  \/ EndsWith(tag, <<":">> \o hash)

\* lines 145-150 (and 115-120): tag === `cdkasset-${hash}:latest` ||
\* (tag.endsWith(`:${hash}`) && tag.includes("container-assets"))
MatchesHash(tag, hash) ==
  \/ tag = CdkAssetTag(hash)
  \/ EndsWith(tag, <<":">> \o hash) /\ "container-assets" \in Range(tag)

\* imageExistsInOutput; the output is the sequence of its non-empty lines,
\* each one a tag, an image id and a size
ImageExistsInOutput(hash, allImagesOutput) ==
  \E i \in 1..Len(allImagesOutput) : MatchesHash(allImagesOutput[i].tag, hash)

\* lines 137-150: the lines whose tag matches the hash
MatchingLines(hash, allImagesOutput) ==
  SelectSeq(allImagesOutput, LAMBDA line : MatchesHash(line.tag, hash))

\* parseDockerSize; a size string is a whole number and what follows it
ParseDockerSize(sizeStr) ==
  CASE sizeStr.unit = "B" -> sizeStr.value
    [] sizeStr.unit = "KB" -> sizeStr.value * 1024
    [] sizeStr.unit = "MB" -> sizeStr.value * (1024 * 1024)
    [] sizeStr.unit = "GB" -> sizeStr.value * (1024 * 1024 * 1024)
    [] sizeStr.unit = "TB" -> sizeStr.value * (1024 * 1024 * 1024 * 1024)
    [] OTHER -> 0

\* line 83: the hashes with an image in the output
ExistingHashes(hs, allImagesOutput) ==
  SelectSeq(hs, LAMBDA h : ImageExistsInOutput(h, allImagesOutput))

RECURSIVE Flatten(_)
Flatten(ss) == IF ss = <<>> THEN <<>> ELSE Head(ss) \o Flatten(Tail(ss))

\* lines 92-95 and 166-176: the tags `image rm` is run on, in order: for
\* every existing hash the tags of its matching lines, none in a dry run
TagsToRemove(hs, allImagesOutput, dryRun) ==
  IF dryRun THEN <<>>
  ELSE LET ex == ExistingHashes(hs, allImagesOutput)
       IN Flatten([k \in 1..Len(ex) |->
            LET ml == MatchingLines(ex[k], allImagesOutput)
            IN [j \in 1..Len(ml) |-> ml[j].tag]])

\* lines 91-95 and 157: the sizes of the first matching line of every
\* existing hash, added up
TotalDockerSize(hs, allImagesOutput) ==
  LET ex == ExistingHashes(hs, allImagesOutput)
  IN SumSeq([k \in 1..Len(ex) |->
       ParseDockerSize(MatchingLines(ex[k], allImagesOutput)[1].size)])

\* faulty variant of lines 168-174: a failed `image rm` ends the loop
AfterRemoveFailure_Abort(rest) == <<>>

\* lines 168-174: a failed `image rm` is caught inside the loop, which goes
\* on with the tags that remain
AfterRemoveFailure(rest) == rest

(***************************************************************************)
(* isProtected                                                             *)
(***************************************************************************)
\* faulty variant of isProtected: the reference set is not consulted
IsProtected_IgnoresReferences(f, clock, itemPath, active, keepHours) ==
  IF keepHours > 0
    THEN clock - f[itemPath].mtime <= keepHours * MsPerHour
    ELSE FALSE

\* faulty variant of isProtected: the age comparison made strict
IsProtected_StrictAge(f, clock, itemPath, active, keepHours) ==
  \/ itemPath \in active
  \/ /\ keepHours > 0
     /\ clock - f[itemPath].mtime < keepHours * MsPerHour

\* faulty variant of isProtected: the keepHours > 0 guard dropped
IsProtected_NoKeepHoursGuard(f, clock, itemPath, active, keepHours) ==
  \/ itemPath \in active
  \/ clock - f[itemPath].mtime <= keepHours * MsPerHour

IsProtected(f, clock, itemPath, active, keepHours) ==
  \/ itemPath \in active
  \/ /\ keepHours > 0
     /\ clock - f[itemPath].mtime <= keepHours * MsPerHour

\* faulty variant of the filter: entry.includes("asset") in place of
\* entry.startsWith("asset.")
IsAssetEntry_Includes(entry) ==
  \E i \in 1..Len(entry) : entry[i] \in {"asset.", ".assets.json"}

\* entries.filter((entry) => entry.startsWith("asset."))
IsAssetEntry(entry) == StartsWith(entry, AssetPrefix)

(***************************************************************************)
(* State                                                                   *)
(***************************************************************************)
VARIABLES
  fs,          \* the file system
  now,         \* Date.now(), in ms
  opts,        \* the options of the current run: mode (cleanupAssets or
               \* cleanupTempDirectories), dryRun, keepHours
  run,         \* the number of the current run
  pc,          \* the position of the current run in cleanupAssets
  activePaths, \* const activePaths
  assetEntries,\* const assetEntries
  dockerPaths, \* const allDockerImageAssetPaths
  slot,        \* the per-entry promises of the Promise.all of line 44
  items,       \* const itemsToDelete
  hashes,      \* const dockerImageHashes
  totalSize,   \* const totalSize
  directories, \* const directories of cleanupTempDirectories
  dirIndex,    \* the number of directories its loop has gone through
  totalCleaned,\* let totalCleaned
  removed,     \* the indexes of itemsToDelete whose fs.rm has completed
  dockerCalls, \* the calls of deleteDockerImages made so far: run, hashes, dryRun
  fs0,         \* the file system when the current run started
  hist,        \* the earlier runs: their options and what they computed
  docker,      \* the container runtime and the position of deleteDockerImages
  cli,         \* the command line and what the CLI action has done with it
  warnings,    \* the descriptor files console.warn has named
  tempLog,     \* what the loop of cleanupTempDirectories did with each directory
  vanished,    \* the paths another process has removed during the current run
  walk,        \* one call of collectActivePaths on a string leaf: its loop
  extract      \* one call of extractDockerImageHash: its argument and result

tmpVars == << directories, dirIndex, totalCleaned, tempLog >>

extVars == << docker, cli, warnings, vanished, walk, extract >>

vars == << fs, now, opts, run, pc, activePaths, assetEntries, dockerPaths,
           slot, items, hashes, totalSize, removed, dockerCalls, fs0, hist,
           directories, dirIndex, totalCleaned, docker, cli, warnings,
           tempLog, vanished, walk, extract >>

(***************************************************************************)
(* Initial file systems                                                    *)
(***************************************************************************)
P(rel) == PathJoin(OutDir, rel)

\* every entry was last modified one hour before the clock starts
M0 == 0 - MsPerHour

\* what is in every output directory of the model
BaseTree ==
  OutDir :> DirNode(M0)
  @@ P(<<"manifest.json">>) :> FileNode(M0, 2)
  @@ P(<<"tree.json">>) :> FileNode(M0, 2)
  @@ P(<<"cdk.out">>) :> FileNode(M0, 0)
  @@ P(<<"Stack", ".template.json">>) :> FileNode(M0, 2)
  @@ P(<<"notes.txt">>) :> FileNode(M0, 4)
  @@ P(<<"sub">>) :> DirNode(M0)
  @@ P(<<"sub", "/", "asset.", "c">>) :> FileNode(M0, 1)
  @@ P(<<"asset.", "a">>) :> DirNode(M0)
  @@ P(<<"asset.", "a", "/", "inner.txt">>) :> FileNode(M0, 3)
  @@ P(<<"asset.", "b">>) :> DirNode(M0 - 1)
  @@ P(<<"asset.", "b", "/", "inner.txt">>) :> FileNode(M0, 5)

\* the contents of cdk.out/Stack.assets.json
RootContents ==
  { [files |-> {}, dockerImages |-> {}],
    [files |-> {<<"asset.", "a">>}, dockerImages |-> {}],
    [files |-> {<<"asset.", "a", "/", "inner.txt">>},
     dockerImages |-> {<<"asset.", "b">>}],
    [files |-> {<<".", "/", "asset.", "a">>, <<>>},
     dockerImages |-> {<<"asset.", "b", "/">>}] }

\* the contents of cdk.out/sub/Nested.assets.json
NestedContents ==
  { [files |-> {}, dockerImages |-> {}],
    [files |-> {<<"..", "/", "asset.", "a">>}, dockerImages |-> {}],
    [files |-> {<<"asset.", "a">>, <<"asset.", "c">>},
     dockerImages |-> {<<"..", "/", "asset.", "b">>}] }

\* which of asset.a and asset.b hold a Dockerfile
DockerChoices ==
  { <<>> :> 0,
    P(<<"asset.", "a", "/", "Dockerfile">>) :> FileNode(M0, 2),
    P(<<"asset.", "a", "/", "Dockerfile">>) :> FileNode(M0, 2)
      @@ P(<<"asset.", "b", "/", "Dockerfile">>) :> FileNode(M0, 2) }

\* one more entry: none, a plain file asset.f written when the clock starts,
\* a descriptor file whose name starts with "asset.", or a descriptor file
\* inside asset.b
ExtraChoices ==
  { <<>> :> 0,
    P(<<"asset.", "f">>) :> FileNode(0, 7),
    P(<<"asset.", "s", ".assets.json">>)
      :> JsonNode(M0 - 1, 6, {<<"asset.", "b">>}, {}),
    P(<<"asset.", "b", "/", "Old", ".assets.json">>)
      :> JsonNode(M0, 6, {<<"..", "/", "asset.", "a">>}, {}) }

\* f without the placeholder of an empty choice
Tree(f) == [q \in (DOMAIN f) \ {<<>>} |-> f[q]]

OutTree(r, n, d, x) ==
  BaseTree
  @@ P(<<"Stack", ".assets.json">>) :> JsonNode(M0, 9, r.files, r.dockerImages)
  @@ P(<<"sub", "/", "Nested", ".assets.json">>)
       :> JsonNode(M0, 9, n.files, n.dockerImages)
  @@ d @@ x

T(rel) == PathJoin(TmpDir, rel)

\* what is in every temp directory of the model
TmpBase ==
  TmpDir :> DirNode(M0)
  @@ T(<<"other">>) :> DirNode(M0 - 1)
  @@ T(<<"other", "/", "notes.txt">>) :> FileNode(M0 - 1, 4)
  @@ T(<<"cdk.out", ".txt">>) :> FileNode(M0 - 1, 3)
  @@ T(<<"cdk.out", "Ab">>) :> DirNode(M0 - 1)
  @@ T(<<"cdk.out", "Ab", "/", "manifest.json">>) :> FileNode(M0, 2)
  @@ T(<<"cdk.out", "Ab", "/", "Stack", ".assets.json">>)
       :> JsonNode(M0, 9, {<<"asset.", "a">>}, {})
  @@ T(<<"cdk.out", "Ab", "/", "asset.", "a">>) :> FileNode(M0, 5)

\* the other temporary CDK directories
TmpChoices ==
  { <<>> :> 0,
    T(<<"cdk-", "x">>) :> DirNode(M0) @@ T(<<"cdk-", "x", "/", "inner.txt">>) :> FileNode(M0, 3),
    T(<<".cdk", "y">>) :> DirNode(M0),
    T(<<"cdk-", "x">>) :> DirNode(M0) @@ T(<<"cdk-", "x", "/", "inner.txt">>) :> FileNode(M0, 3)
      @@ T(<<".cdk", "y">>) :> DirNode(M0 - 1) }

DefaultContent == [files |-> {}, dockerImages |-> {}]

KeepHoursChoices == (0 - 1)..MaxKeepHours

NoSlot == [st |-> "pending", size |-> 0, age |-> 0]

\* no run has started: the clock is at 0 and nothing has been computed
RunStart ==
  /\ now = 0
  /\ run = 1
  /\ pc = "start"
  /\ activePaths = {}
  /\ assetEntries = <<>>
  /\ dockerPaths = {}
  /\ slot = <<>>
  /\ items = <<>>
  /\ hashes = <<>>
  /\ totalSize = 0
  /\ directories = <<>>
  /\ dirIndex = 0
  /\ totalCleaned = 0
  /\ removed = {}
  /\ dockerCalls = <<>>
  /\ fs0 = fs
  /\ hist = <<>>
  /\ warnings = {}
  /\ tempLog = <<>>
  /\ vanished = {}

\* the container runtime is not looked at: deleteDockerImages is a recorded call
DockerIdle ==
  [available |-> TRUE, images |-> <<>>, initial |-> <<>>, pc |-> "idle",
   work |-> <<>>, attempts |-> <<>>, failed |-> {}, result |-> 0,
   warned |-> FALSE]

\* Number.NaN and the other numbers parseInt returns
NaN == [nan |-> TRUE, value |-> 0]

Num(n) == [nan |-> FALSE, value |-> n]

\* the functions are called directly, not through the command line
CliIdle ==
  [keepHoursArg |-> <<"0">>, outdirArg |-> OutDir, cleanupTmp |-> FALSE,
   dryRun |-> FALSE, pc |-> "idle", keepHours |-> NaN, exitCode |-> 0,
   called |-> "none", stderr |-> <<>>]

\* collectActivePaths of cleanup.ts is not running
WalkIdle ==
  [basePath |-> <<>>, leaf |-> <<>>, fullPath |-> <<>>, parent |-> <<>>,
   collected |-> {}, pc |-> "idle"]

\* extractDockerImageHash is not being looked at on its own
ExtractIdle ==
  [outdir |-> <<>>, entry |-> <<>>, itemPath |-> <<>>, hash |-> <<>>, pc |-> "idle"]

\* the output directory is there (any of the trees above) or is missing
Init ==
  /\ opts \in [mode : {"assets", "tmp"}, dryRun : BOOLEAN,
               keepHours : KeepHoursChoices]
  /\ IF opts.mode = "assets"
       THEN \/ \E r \in RootContents, n \in NestedContents,
                  d \in DockerChoices, x \in ExtraChoices :
                 fs = Tree(OutTree(r, n, d, x) @@ TmpBase)
            \/ fs = Tree(TmpBase)
       ELSE \E t \in TmpChoices :
              fs = Tree(OutTree(DefaultContent, DefaultContent, <<>> :> 0, <<>> :> 0)
                        @@ TmpBase @@ t)
  /\ RunStart
  /\ docker = DockerIdle
  /\ cli = CliIdle
  /\ walk = WalkIdle
  /\ extract = ExtractIdle

(***************************************************************************)
(* cleanupAssets, step by step                                             *)
(***************************************************************************)
\* faulty variant of lines 27-31: the directory is not looked at
AccessOk_Unchecked(f, outdir) == TRUE

\* lines 27-31: await fs.access(outdir) resolves
AccessOk(f, outdir) == Exists(f, outdir)

\* lines 27-31: fs.access rejects, "Directory not found" is thrown
AccessFailed ==
  /\ pc = "start"
  /\ opts.mode = "assets"
  /\ ~AccessOk(fs, OutDir)
  /\ pc' = "failed"
  /\ UNCHANGED << fs, now, opts, run, activePaths, assetEntries, dockerPaths,
                  slot, items, hashes, totalSize, removed, dockerCalls, fs0,
                  hist, tmpVars, extVars >>

\* faulty variant of line 34, after the earlier cleanup.ts: the references
\* are read from manifest.json first, and the run fails when it is missing
CollectRefs_ReadsManifest ==
  /\ pc = "start"
  /\ opts.mode = "assets"
  /\ AccessOk(fs, OutDir)
  /\ IF Exists(fs, PathJoin(OutDir, <<"manifest.json">>))
       THEN /\ activePaths' = CollectAssetPaths(fs, OutDir)
            /\ warnings' = warnings \cup ParseFailures(fs, OutDir)
            /\ pc' = "list"
       ELSE /\ pc' = "failed"
            /\ UNCHANGED << activePaths, warnings >>
  /\ UNCHANGED << fs, now, opts, run, assetEntries, dockerPaths, slot, items,
                  hashes, totalSize, removed, dockerCalls, fs0, hist, tmpVars,
                  docker, cli, vanished, walk, extract >>

\* line 34: const activePaths = await collectAssetPaths(outdir)
CollectRefs ==
  /\ pc = "start"
  /\ opts.mode = "assets"
  /\ AccessOk(fs, OutDir)
  /\ IF CatchParseError(ParseFailures(fs, OutDir)) = {}
       THEN /\ activePaths' = CollectAssetPaths(fs, OutDir)
            /\ warnings' = warnings \cup ParseFailures(fs, OutDir)
            /\ pc' = "list"
       ELSE /\ pc' = "failed"
            /\ UNCHANGED << activePaths, warnings >>
  /\ UNCHANGED << fs, now, opts, run, assetEntries, dockerPaths, slot, items,
                  hashes, totalSize, removed, dockerCalls, fs0, hist, tmpVars,
                  docker, cli, vanished, walk, extract >>

\* lines 37-41: readdir, the "asset." filter, collectDockerImageAssetPaths
ListEntries ==
  /\ pc = "list"
  /\ LET entries == Readdir(fs, OutDir)
         filtered == SelectSeq(entries, IsAssetEntry)
     IN /\ assetEntries' = filtered
        /\ dockerPaths' = CollectDockerImageAssetPaths(fs, filtered, OutDir)
        /\ slot' = [i \in 1..Len(filtered) |-> NoSlot]
  /\ pc' = "check"
  /\ UNCHANGED << fs, now, opts, run, activePaths, items, hashes, totalSize,
                  removed, dockerCalls, fs0, hist, tmpVars, extVars >>

\* lines 165-176: isProtected reaches `await fs.stat(itemPath)` when the path is
\* not in activePaths and keepHours > 0
StatNeeded(itemPath, active, keepHours) == itemPath \notin active /\ keepHours > 0

\* line 49: await isProtected(itemPath, activePaths, keepHours), for one entry
CheckEntry(i) ==
  /\ pc = "check"
  /\ slot[i].st = "pending"
  /\ ~StatNeeded(PathJoin(OutDir, assetEntries[i]), activePaths, opts.keepHours)
       \/ Exists(fs, PathJoin(OutDir, assetEntries[i]))
  /\ LET itemPath == PathJoin(OutDir, assetEntries[i])
     IN slot' = [slot EXCEPT ![i] =
          [st |-> IF IsProtected(fs, now, itemPath, activePaths, opts.keepHours)
                    THEN "protected" ELSE "unprotected",
           size |-> 0,
           age |-> IF Exists(fs, itemPath) THEN now - fs[itemPath].mtime ELSE 0]]
  /\ UNCHANGED << fs, now, opts, run, pc, activePaths, assetEntries,
                  dockerPaths, items, hashes, totalSize, removed, dockerCalls,
                  fs0, hist, tmpVars, extVars >>

\* lines 49 and 165-176: fs.stat(itemPath) rejects in isProtected, which has no
\* try/catch; the callback rejects, so the Promise.all of line 44 and then
\* cleanupAssets reject
CheckEntryFails(i) ==
  /\ pc = "check"
  /\ slot[i].st = "pending"
  /\ StatNeeded(PathJoin(OutDir, assetEntries[i]), activePaths, opts.keepHours)
  /\ ~Exists(fs, PathJoin(OutDir, assetEntries[i]))
  /\ pc' = "failed"
  /\ UNCHANGED << fs, now, opts, run, activePaths, assetEntries, dockerPaths,
                  slot, items, hashes, totalSize, removed, dockerCalls, fs0,
                  hist, tmpVars, extVars >>

\* lines 53-55 and utils.ts line 8: fs.stat(itemPath) rejects in calculateSize,
\* which has no try/catch either; cleanupAssets rejects
SizeEntryFails(i) ==
  /\ pc = "check"
  /\ slot[i].st = "unprotected"
  /\ ~Exists(fs, PathJoin(OutDir, assetEntries[i]))
  /\ pc' = "failed"
  /\ UNCHANGED << fs, now, opts, run, activePaths, assetEntries, dockerPaths,
                  slot, items, hashes, totalSize, removed, dockerCalls, fs0,
                  hist, tmpVars, extVars >>

\* lines 53-55: await calculateSize(itemPath), for one unprotected entry
SizeEntry(i) ==
  /\ pc = "check"
  /\ slot[i].st = "unprotected"
  /\ Exists(fs, PathJoin(OutDir, assetEntries[i]))
  /\ slot' = [slot EXCEPT ![i].st = "sized",
                          ![i].size = CalculateSize(fs, PathJoin(OutDir, assetEntries[i]))]
  /\ UNCHANGED << fs, now, opts, run, pc, activePaths, assetEntries,
                  dockerPaths, items, hashes, totalSize, removed, dockerCalls,
                  fs0, hist, tmpVars, extVars >>

\* faulty variant of lines 43-60: the results in the opposite order
ItemsToDelete_Reversed ==
  LET picked == SelectSeq([i \in 1..Len(assetEntries) |-> Len(assetEntries) + 1 - i],
                          LAMBDA i : slot[i].st = "sized")
  IN [k \in 1..Len(picked) |->
        [path |-> PathJoin(OutDir, assetEntries[picked[k]]),
         size |-> slot[picked[k]].size,
         isDockerImageAsset |->
           PathJoin(OutDir, assetEntries[picked[k]]) \in dockerPaths]]

\* the result of the Promise.all, without the nulls, in the order of the entries
ItemsToDelete ==
  LET picked == SelectSeq([i \in 1..Len(assetEntries) |-> i],
                          LAMBDA i : slot[i].st = "sized")
  IN [k \in 1..Len(picked) |->
        [path |-> PathJoin(OutDir, assetEntries[picked[k]]),
         size |-> slot[picked[k]].size,
         isDockerImageAsset |->
           PathJoin(OutDir, assetEntries[picked[k]]) \in dockerPaths]]

\* faulty variant of lines 71-78: a hash is extracted for every item, Docker
\* image asset or not
DockerImageHashes_AllItems(its) ==
  LET hs == [k \in 1..Len(its) |-> ExtractDockerImageHash(its[k].path)]
  IN SelectSeq(hs, LAMBDA h : h # NoHash)

\* lines 71-78: the hashes of the Docker image assets among the items
DockerImageHashes(its) ==
  LET hs == [k \in 1..Len(its) |->
               IF its[k].isDockerImageAsset
                 THEN ExtractDockerImageHash(its[k].path) ELSE NoHash]
  IN SelectSeq(hs, LAMBDA h : h # NoHash)

\* faulty variant of lines 43-60: the results are taken without awaiting the
\* Promise.all, while checks and size computations are still running
BuildPlan_NoBarrier ==
  /\ pc = "check"
  /\ items' = ItemsToDelete
  /\ IF Len(ItemsToDelete) = 0
       THEN /\ pc' = "done"
            /\ UNCHANGED << hashes, totalSize >>
       ELSE /\ pc' = "delete"
            /\ hashes' = DockerImageHashes(ItemsToDelete)
            /\ totalSize' = SumSeq([k \in 1..Len(ItemsToDelete) |-> ItemsToDelete[k].size])
  /\ UNCHANGED << fs, now, opts, run, activePaths, assetEntries, dockerPaths,
                  slot, removed, dockerCalls, fs0, hist, tmpVars, extVars >>

\* lines 58-81: the Promise.all has settled; the plan is displayed
BuildPlan ==
  /\ pc = "check"
  /\ \A i \in 1..Len(assetEntries) : slot[i].st \in {"protected", "sized"}
  /\ items' = ItemsToDelete
  /\ IF Len(ItemsToDelete) = 0
       THEN /\ pc' = "done"
            /\ UNCHANGED << hashes, totalSize >>
       ELSE /\ pc' = "delete"
            /\ hashes' = DockerImageHashes(ItemsToDelete)
            /\ totalSize' = SumSeq([k \in 1..Len(ItemsToDelete) |-> ItemsToDelete[k].size])
  /\ UNCHANGED << fs, now, opts, run, activePaths, assetEntries, dockerPaths,
                  slot, removed, dockerCalls, fs0, hist, tmpVars, extVars >>

\* faulty variant of line 83: the deletion is not skipped in a dry run
DeletionEnabled_IgnoresDryRun(dryRun) == TRUE

\* line 83: if (!dryRun)
DeletionEnabled(dryRun) == ~dryRun

\* lines 83-87: one fs.rm of the Promise.all over itemsToDelete
RemoveItem(k) ==
  /\ pc = "delete"
  /\ DeletionEnabled(opts.dryRun)
  /\ k \notin removed
  /\ fs' = RmRecursive(fs, items[k].path)
  /\ removed' = removed \cup {k}
  /\ UNCHANGED << now, opts, run, pc, activePaths, assetEntries, dockerPaths,
                  slot, items, hashes, totalSize, dockerCalls, fs0, hist, tmpVars, extVars >>

DeletionSettled == ~DeletionEnabled(opts.dryRun) \/ removed = 1..Len(items)

\* lines 89-91: deleteDockerImages(dockerImageHashes, dryRun)
CallDeleteDockerImages ==
  /\ pc = "delete"
  /\ DeletionSettled
  /\ Len(hashes) > 0
  /\ dockerCalls' = Append(dockerCalls,
                           [run |-> run, hashes |-> hashes, dryRun |-> opts.dryRun])
  /\ IF docker.pc = "idle"
       THEN pc' = "done" /\ UNCHANGED docker
       ELSE pc' = "docker" /\ docker' = [docker EXCEPT !.pc = "called"]
  /\ UNCHANGED << fs, now, opts, run, activePaths, assetEntries, dockerPaths,
                  slot, items, hashes, totalSize, removed, fs0, hist, tmpVars,
                  cli, warnings, vanished, walk, extract >>

dockerFrame == << fs, now, opts, run, pc, activePaths, assetEntries, dockerPaths,
                 slot, items, hashes, totalSize, removed, dockerCalls, fs0,
                 hist, tmpVars, cli, warnings, vanished, walk, extract >>

\* part_006 lines 66-81: `image ls` fails; a warning, and 0 is returned
DockerListFails ==
  /\ pc = "docker"
  /\ docker.pc = "called"
  /\ ~docker.available
  /\ docker' = [docker EXCEPT !.warned = TRUE, !.result = 0, !.pc = "returned"]
  /\ UNCHANGED dockerFrame

\* part_006 lines 66-87 and 137-164: `image ls` succeeds; the tags to remove
\* and the size to report are computed from its output
DockerListImages ==
  /\ pc = "docker"
  /\ docker.pc = "called"
  /\ docker.available
  /\ LET work == TagsToRemove(hashes, docker.images, opts.dryRun)
     IN docker' = [docker EXCEPT
          !.work = work,
          !.result = TotalDockerSize(hashes, docker.images),
          !.pc = IF work = <<>> THEN "returned" ELSE "removing"]
  /\ UNCHANGED dockerFrame

\* part_006 lines 168-169: `image rm <tag>` succeeds
DockerRemoveOk ==
  /\ pc = "docker"
  /\ docker.pc = "removing"
  /\ LET tag == Head(docker.work)
         rest == Tail(docker.work)
     IN docker' = [docker EXCEPT
          !.attempts = Append(@, tag),
          !.images = SelectSeq(@, LAMBDA line : line.tag # tag),
          !.work = rest,
          !.pc = IF rest = <<>> THEN "returned" ELSE "removing"]
  /\ UNCHANGED dockerFrame

\* part_006 lines 168-174: `image rm <tag>` fails; a warning
DockerRemoveFails ==
  /\ pc = "docker"
  /\ docker.pc = "removing"
  /\ LET tag == Head(docker.work)
         rest == AfterRemoveFailure(Tail(docker.work))
     IN docker' = [docker EXCEPT
          !.attempts = Append(@, tag),
          !.failed = @ \cup {tag},
          !.warned = TRUE,
          !.work = rest,
          !.pc = IF rest = <<>> THEN "returned" ELSE "removing"]
  /\ UNCHANGED dockerFrame

\* asset-cleanup.ts lines 89-97: deleteDockerImages has returned, the run ends
DockerReturn ==
  /\ pc = "docker"
  /\ docker.pc = "returned"
  /\ pc' = "done"
  /\ UNCHANGED << fs, now, opts, run, activePaths, assetEntries, dockerPaths,
                  slot, items, hashes, totalSize, removed, dockerCalls, fs0,
                  hist, tmpVars, extVars >>

\* lines 89-97: no Docker image hash, the run ends
Finish ==
  /\ pc = "delete"
  /\ DeletionSettled
  /\ Len(hashes) = 0
  /\ pc' = "done"
  /\ UNCHANGED << fs, now, opts, run, activePaths, assetEntries, dockerPaths,
                  slot, items, hashes, totalSize, removed, dockerCalls, fs0, hist, tmpVars, extVars >>

(***************************************************************************)
(* cleanupTempDirectories                                                  *)
(***************************************************************************)
\* faulty variant of lines 78-80: the ".cdk" prefix is not looked for
IsTempName_NoDotCdk(name) ==
  \E pre \in TempPrefixes \ { <<".cdk">> } : StartsWith(name, pre)

\* lines 78-80: the name starts with "cdk.out", "cdk-" or ".cdk"
IsTempName(name) == \E pre \in TempPrefixes : StartsWith(name, pre)

\* findTempDirectories: the directories of os.tmpdir() with a CDK prefix
FindTempDirectories(f) ==
  LET names == SelectSeq(Readdir(f, TmpDir),
                         LAMBDA n : IsDirectory(f, PathJoin(TmpDir, n)) /\ IsTempName(n))
  IN [i \in 1..Len(names) |-> PathJoin(TmpDir, names[i])]

\* shouldProtectDirectory
ShouldProtectDirectory(f, clock, dirPath, keepHours) ==
  IF keepHours <= 0 THEN FALSE
  ELSE IF ~Exists(f, dirPath) THEN FALSE
  ELSE clock - f[dirPath].mtime <= keepHours * MsPerHour

\* lines 21-29: the directories are listed
ScanTemp ==
  /\ pc = "start"
  /\ opts.mode = "tmp"
  /\ directories' = FindTempDirectories(fs)
  /\ dirIndex' = 0
  /\ totalCleaned' = 0
  /\ totalSize' = 0
  /\ tempLog' = <<>>
  /\ pc' = IF Len(FindTempDirectories(fs)) = 0 THEN "done" ELSE "loop"
  /\ UNCHANGED << fs, now, opts, run, activePaths, assetEntries, dockerPaths,
                  slot, items, hashes, removed, dockerCalls, fs0, hist, extVars >>

\* what the loop has done with one directory
TempOutcome(dir, what, size) == [dir |-> dir, what |-> what, size |-> size]

\* lines 31-51: one iteration of the loop over the directories, no error
ProcessTempDir ==
  /\ pc = "loop"
  /\ dirIndex < Len(directories)
  /\ Exists(fs, directories[dirIndex + 1])
  /\ dirIndex' = dirIndex + 1
  /\ LET dir == directories[dirIndex + 1]
     IN IF ShouldProtectDirectory(fs, now, dir, opts.keepHours)
          THEN /\ tempLog' = Append(tempLog, TempOutcome(dir, "protected", 0))
               /\ UNCHANGED << fs, totalSize, totalCleaned >>
          ELSE /\ totalSize' = totalSize + CalculateSize(fs, dir)
               /\ fs' = IF opts.dryRun THEN fs ELSE RmRecursive(fs, dir)
               /\ totalCleaned' = totalCleaned + 1
               /\ tempLog' = Append(tempLog,
                                    TempOutcome(dir, "cleaned", CalculateSize(fs, dir)))
  /\ UNCHANGED << now, opts, run, pc, activePaths, assetEntries, dockerPaths,
                  slot, items, hashes, removed, dockerCalls, fs0, hist,
                  directories, extVars >>

\* faulty variant of lines 47-50: the error ends the loop
AfterTempDirError_Abort(i, n) == n

\* lines 47-50: catch { continue; }, the loop goes on with the next directory
AfterTempDirError(i, n) == i + 1

\* lines 31-51, the directory is gone: shouldProtectDirectory catches the error
\* of fs.stat and returns false (lines 95-107), calculateSize throws (utils.ts
\* line 8) and the catch of line 47 goes on with the next directory
ProcessTempDirSizeFails ==
  /\ pc = "loop"
  /\ dirIndex < Len(directories)
  /\ ~Exists(fs, directories[dirIndex + 1])
  /\ dirIndex' = AfterTempDirError(dirIndex, Len(directories))
  /\ tempLog' = Append(tempLog, TempOutcome(directories[dirIndex + 1], "sizeError", 0))
  /\ UNCHANGED << fs, now, opts, run, pc, activePaths, assetEntries, dockerPaths,
                  slot, items, hashes, totalSize, removed, dockerCalls, fs0, hist,
                  directories, totalCleaned, extVars >>

\* lines 31-51, fs.rm throws (the directory cannot be removed): the size is
\* already in totalSize (line 40), totalCleaned++ of line 46 is not reached
ProcessTempDirRmFails ==
  /\ pc = "loop"
  /\ dirIndex < Len(directories)
  /\ Exists(fs, directories[dirIndex + 1])
  /\ ~ShouldProtectDirectory(fs, now, directories[dirIndex + 1], opts.keepHours)
  /\ ~opts.dryRun
  /\ totalSize' = totalSize + CalculateSize(fs, directories[dirIndex + 1])
  /\ dirIndex' = AfterTempDirError(dirIndex, Len(directories))
  /\ tempLog' = Append(tempLog, TempOutcome(directories[dirIndex + 1], "rmError",
                                            CalculateSize(fs, directories[dirIndex + 1])))
  /\ UNCHANGED << fs, now, opts, run, pc, activePaths, assetEntries, dockerPaths,
                  slot, items, hashes, removed, dockerCalls, fs0, hist,
                  directories, totalCleaned, extVars >>

\* lines 53-65: the loop is over, the totals are reported
FinishTemp ==
  /\ pc = "loop"
  /\ dirIndex = Len(directories)
  /\ pc' = "done"
  /\ UNCHANGED << fs, now, opts, run, activePaths, assetEntries, dockerPaths,
                  slot, items, hashes, totalSize, removed, dockerCalls, fs0,
                  hist, tmpVars, extVars >>

(***************************************************************************)
(* The environment                                                         *)
(***************************************************************************)
\* the tool is run again on the same directory with the same keepHours,
\* this time for real
NextRun ==
  /\ pc = "done"
  /\ run < MaxRuns
  /\ hist' = Append(hist, [dryRun |-> opts.dryRun, items |-> items,
                           hashes |-> hashes, totalSize |-> totalSize,
                           clock |-> now])
  /\ run' = run + 1
  /\ opts' = [opts EXCEPT !.dryRun = FALSE]
  /\ pc' = "start"
  /\ activePaths' = {}
  /\ assetEntries' = <<>>
  /\ dockerPaths' = {}
  /\ slot' = <<>>
  /\ items' = <<>>
  /\ hashes' = <<>>
  /\ totalSize' = 0
  /\ removed' = {}
  /\ fs0' = fs
  /\ directories' = <<>>
  /\ dirIndex' = 0
  /\ totalCleaned' = 0
  /\ tempLog' = <<>>
  /\ UNCHANGED << fs, now, dockerCalls, extVars >>

\* another process removes a candidate of the run while the run is looking at
\* the candidates
Vanish(p) ==
  /\ pc \in {"check", "loop"}
  /\ Cardinality(vanished) < MaxVanish
  /\ Exists(fs, p)
  /\ fs' = RmRecursive(fs, p)
  /\ vanished' = vanished \cup {p}
  /\ UNCHANGED << now, opts, run, pc, activePaths, assetEntries, dockerPaths,
                  slot, items, hashes, totalSize, removed, dockerCalls, fs0, hist,
                  tmpVars, docker, cli, warnings, walk, extract >>

\* the clock advances by one millisecond
Tick ==
  /\ now < MaxTicks
  /\ pc # "done" \/ run < MaxRuns
  /\ now' = now + 1
  /\ UNCHANGED << fs, opts, run, pc, activePaths, assetEntries, dockerPaths,
                  slot, items, hashes, totalSize, removed, dockerCalls, fs0, hist, tmpVars, extVars >>

Next ==
  \/ AccessFailed
  \/ CollectRefs
  \/ ListEntries
  \/ \E i \in 1..Len(assetEntries) : CheckEntry(i)
  \/ \E i \in 1..Len(assetEntries) : SizeEntry(i)
  \/ BuildPlan
  \/ \E k \in 1..Len(items) : RemoveItem(k)
  \/ CallDeleteDockerImages
  \/ Finish
  \/ ScanTemp
  \/ ProcessTempDir
  \/ FinishTemp
  \/ NextRun
  \/ Tick

Spec == Init /\ [][Next]_vars

(***************************************************************************)
(* The command line: cli.ts, the action of the program                     *)
(***************************************************************************)
Digits == {"0", "1", "2", "3", "4", "5", "6", "7", "8", "9"}

DigitValue(c) ==
  CASE c = "0" -> 0 [] c = "1" -> 1 [] c = "2" -> 2 [] c = "3" -> 3
    [] c = "4" -> 4 [] c = "5" -> 5 [] c = "6" -> 6 [] c = "7" -> 7
    [] c = "8" -> 8 [] c = "9" -> 9

\* the characters of s from the first one that is not white space
RECURSIVE SkipWhiteSpace(_)
SkipWhiteSpace(s) ==
  IF s # <<>> /\ Head(s) = " " THEN SkipWhiteSpace(Tail(s)) ELSE s

\* the longest prefix of s made of digits
RECURSIVE LeadingDigits(_)
LeadingDigits(s) ==
  IF s # <<>> /\ Head(s) \in Digits
    THEN <<Head(s)>> \o LeadingDigits(Tail(s)) ELSE <<>>

RECURSIVE DecimalValue(_, _)
DecimalValue(ds, acc) ==
  IF ds = <<>> THEN acc ELSE DecimalValue(Tail(ds), acc * 10 + DigitValue(Head(ds)))

\* parseInt(s, 10): leading white space is skipped, then an optional sign,
\* then the digits up to the first character that is not one; NaN when there
\* is no digit.  A string is the sequence of its characters.
ParseInt(s) ==
  LET t == SkipWhiteSpace(s)
      signed == t # <<>> /\ Head(t) \in {"-", "+"}
      ds == LeadingDigits(IF signed THEN Tail(t) ELSE t)
  IN IF ds = <<>> THEN NaN
     ELSE IF signed /\ Head(t) = "-" THEN Num(0 - DecimalValue(ds, 0))
     ELSE Num(DecimalValue(ds, 0))

\* line 95: isNaN(keepHours) || keepHours < 0
KeepHoursInvalid(keepHours) == keepHours.nan \/ keepHours.value < 0

\* faulty variant of line 101: the two options are not checked against each
\* other
OptionsConflict_Ignored(cleanupTmp, outdir) == FALSE

\* line 101: options.cleanupTmp && options.outdir !== "cdk.out"
OptionsConflict(cleanupTmp, outdir) == cleanupTmp /\ outdir # <<"cdk.out">>

cliFrame == << fs, now, run, pc, activePaths, assetEntries, dockerPaths, slot,
              items, hashes, totalSize, removed, dockerCalls, fs0, hist,
              tmpVars, docker, warnings, vanished, walk, extract >>

\* line 94: const keepHours = parseInt(options.keepHours, 10)
CliParseKeepHours ==
  /\ cli.pc = "start"
  /\ cli' = [cli EXCEPT !.keepHours = ParseInt(cli.keepHoursArg), !.pc = "parsed"]
  /\ UNCHANGED << opts, cliFrame >>

\* lines 95-98: the error message and process.exit(1)
CliRejectKeepHours ==
  /\ cli.pc = "parsed"
  /\ KeepHoursInvalid(cli.keepHours)
  /\ cli' = [cli EXCEPT
       !.stderr = Append(@, "Error: --keep-hours must be a non-negative number"),
       !.exitCode = 1, !.pc = "exited"]
  /\ UNCHANGED << opts, cliFrame >>

\* lines 100-104: the error message and process.exit(1)
CliRejectConflict ==
  /\ cli.pc = "parsed"
  /\ ~KeepHoursInvalid(cli.keepHours)
  /\ OptionsConflict(cli.cleanupTmp, cli.outdirArg)
  /\ cli' = [cli EXCEPT
       !.stderr = Append(@, "Error: --cleanup-tmp and --outdir cannot be used together"),
       !.exitCode = 1, !.pc = "exited"]
  /\ UNCHANGED << opts, cliFrame >>

\* lines 106-110: cleanupTempDirectories({ dryRun, keepHours }) is called
CliCleanupTempDirectories ==
  /\ cli.pc = "parsed"
  /\ ~KeepHoursInvalid(cli.keepHours)
  /\ ~OptionsConflict(cli.cleanupTmp, cli.outdirArg)
  /\ cli.cleanupTmp
  /\ opts' = [mode |-> "tmp", dryRun |-> cli.dryRun, keepHours |-> cli.keepHours.value]
  /\ cli' = [cli EXCEPT !.called = "cleanupTempDirectories", !.pc = "called"]
  /\ UNCHANGED cliFrame

\* lines 111-117: cleanupAssets({ outdir, dryRun, keepHours }) is called
CliCleanupAssets ==
  /\ cli.pc = "parsed"
  /\ ~KeepHoursInvalid(cli.keepHours)
  /\ ~OptionsConflict(cli.cleanupTmp, cli.outdirArg)
  /\ ~cli.cleanupTmp
  /\ opts' = [mode |-> "assets", dryRun |-> cli.dryRun, keepHours |-> cli.keepHours.value]
  /\ cli' = [cli EXCEPT !.called = "cleanupAssets", !.pc = "called"]
  /\ UNCHANGED cliFrame

\* the characters of the --keep-hours values of the model
ArgAlphabet == {"-", "0", "5", ".", "a"}

\* every string of at most MaxArgLen of these characters
KeepHoursArgs == UNION { [1..n -> ArgAlphabet] : n \in 0..MaxArgLen }

\* the --outdir values: the default, and two that are not the default
OutdirArgs == { <<"cdk.out">>, <<".", "/", "custom-dir">>, <<".", "/", "cdk.out">> }

InitCli ==
  /\ opts = [mode |-> "assets", dryRun |-> FALSE, keepHours |-> 0]
  /\ fs = Tree(OutTree(DefaultContent, DefaultContent, <<>> :> 0, <<>> :> 0) @@ TmpBase)
  /\ RunStart
  /\ docker = DockerIdle
  /\ \E k \in KeepHoursArgs, o \in OutdirArgs, t \in BOOLEAN, d \in BOOLEAN :
       cli = [CliIdle EXCEPT !.keepHoursArg = k, !.outdirArg = o,
                             !.cleanupTmp = t, !.dryRun = d, !.pc = "start"]
  /\ walk = WalkIdle
  /\ extract = ExtractIdle

NextCli ==
  \/ CliParseKeepHours
  \/ CliRejectKeepHours
  \/ CliRejectConflict
  \/ CliCleanupTempDirectories
  \/ CliCleanupAssets

SpecCli == InitCli /\ [][NextCli]_vars

(***************************************************************************)
(* cleanupAssets alone, while the clock advances, on output directories    *)
(* with or without manifest.json and with or without a descriptor file     *)
(* that does not parse                                                     *)
(***************************************************************************)
\* a descriptor file whose text is not JSON, in the root or in cdk.out/sub
MalformedChoices ==
  { <<>> :> 0,
    P(<<"Bad", ".assets.json">>) :> FileNode(M0, 3),
    P(<<"sub", "/", "Bad", ".assets.json">>) :> FileNode(M0, 3) }

\* f without the file or directory p
Without(f, p) == [q \in { x \in DOMAIN f : ~(x = p \/ StartsWith(x, p \o <<"/">>)) } |-> f[q]]

\* asset.b holds a subdirectory with a file, and something that is neither a
\* file nor a directory
DeepTree ==
  P(<<"asset.", "b", "/", "deep">>) :> DirNode(M0)
  @@ P(<<"asset.", "b", "/", "deep", "/", "inner.txt">>) :> FileNode(M0, 4)
  @@ P(<<"asset.", "b", "/", "pipe">>) :> OtherNode(M0, 9)

InitScan ==
  /\ opts \in [mode : {"assets"}, dryRun : BOOLEAN, keepHours : KeepHoursChoices]
  /\ \E r \in RootContents, n \in NestedContents, d \in DockerChoices,
        b \in MalformedChoices, m \in BOOLEAN :
       LET tree == Tree(OutTree(r, n, d, b) @@ DeepTree @@ TmpBase)
       IN fs = IF m THEN tree ELSE Without(tree, P(<<"manifest.json">>))
  /\ RunStart
  /\ docker = DockerIdle
  /\ cli = CliIdle
  /\ walk = WalkIdle
  /\ extract = ExtractIdle

NextScan ==
  \/ CollectRefs
  \/ ListEntries
  \/ \E i \in 1..Len(assetEntries) : CheckEntry(i)
  \/ \E i \in 1..Len(assetEntries) : SizeEntry(i)
  \/ BuildPlan
  \/ \E k \in 1..Len(items) : RemoveItem(k)
  \/ CallDeleteDockerImages
  \/ Finish
  \/ Tick

SpecScan == InitScan /\ [][NextScan]_vars

(***************************************************************************)
(* cleanupAssets with the container runtime: what `image ls` prints, and   *)
(* whether `image ls` and each `image rm` succeed                          *)
(***************************************************************************)
ImageLine(tag, id, value, unit) ==
  [tag |-> tag, id |-> id, size |-> [value |-> value, unit |-> unit]]

\* the local image stores of the model
ImageStores ==
  { <<>>,
    << ImageLine(CdkAssetTag(<<"a">>), "i1", 100, "MB"),
       ImageLine(<<"ecr/", "cdk-", "container-assets", "-r", ":", "a">>, "i1", 100, "MB"),
       ImageLine(<<"my-custom-repo", ":", "a">>, "i2", 100, "MB"),
       ImageLine(<<"other-repo/image", ":", "latest">>, "i3", 50, "MB") >>,
    << ImageLine(<<"cdkasset-", "a", ":", "v1">>, "i1", 3, "KB"),
       ImageLine(<<"ecr/", "cdk-", "container-assets", "-r", ":", "b">>, "i4", 7, "B"),
       ImageLine(CdkAssetTag(<<"b">>), "i4", 2, "KB"),
       ImageLine(CdkAssetTag(<<"a">>), "i1", 3, "KB"),
       ImageLine(CdkAssetTag(<<"c">>), "i5", 1, "?") >> }

InitDocker ==
  /\ opts \in [mode : {"assets"}, dryRun : BOOLEAN, keepHours : KeepHoursChoices]
  /\ \E r \in RootContents, d \in DockerChoices :
       fs = Tree(OutTree(r, DefaultContent, d, <<>> :> 0) @@ TmpBase)
  /\ RunStart
  /\ \E av \in BOOLEAN, im \in ImageStores :
       docker = [DockerIdle EXCEPT !.pc = "ready", !.available = av,
                                   !.images = im, !.initial = im]
  /\ cli = CliIdle
  /\ walk = WalkIdle
  /\ extract = ExtractIdle

NextDocker ==
  \/ CollectRefs
  \/ ListEntries
  \/ \E i \in 1..Len(assetEntries) : CheckEntry(i)
  \/ \E i \in 1..Len(assetEntries) : SizeEntry(i)
  \/ BuildPlan
  \/ \E k \in 1..Len(items) : RemoveItem(k)
  \/ CallDeleteDockerImages
  \/ Finish
  \/ DockerListFails
  \/ DockerListImages
  \/ DockerRemoveOk
  \/ DockerRemoveFails
  \/ DockerReturn

SpecDocker == InitDocker /\ [][NextDocker]_vars

(***************************************************************************)
(* cleanupAssets while another process removes entries of the directory    *)
(***************************************************************************)
InitVanish ==
  /\ opts \in [mode : {"assets"}, dryRun : BOOLEAN, keepHours : KeepHoursChoices]
  /\ \E r \in RootContents, n \in NestedContents, d \in DockerChoices :
       fs = Tree(OutTree(r, n, d, <<>> :> 0) @@ TmpBase)
  /\ RunStart
  /\ docker = DockerIdle
  /\ cli = CliIdle
  /\ walk = WalkIdle
  /\ extract = ExtractIdle

NextVanish ==
  \/ CollectRefs
  \/ ListEntries
  \/ \E i \in 1..Len(assetEntries) : CheckEntry(i)
  \/ \E i \in 1..Len(assetEntries) : CheckEntryFails(i)
  \/ \E i \in 1..Len(assetEntries) : SizeEntry(i)
  \/ \E i \in 1..Len(assetEntries) : SizeEntryFails(i)
  \/ BuildPlan
  \/ \E k \in 1..Len(items) : RemoveItem(k)
  \/ CallDeleteDockerImages
  \/ Finish
  \/ \E i \in 1..Len(assetEntries) : Vanish(PathJoin(OutDir, assetEntries[i]))

SpecVanish == InitVanish /\ [][NextVanish]_vars

(***************************************************************************)
(* cleanupTempDirectories with the errors its loop catches                 *)
(***************************************************************************)
InitTemp ==
  /\ opts \in [mode : {"tmp"}, dryRun : BOOLEAN, keepHours : KeepHoursChoices]
  /\ \E t \in TmpChoices :
       fs = Tree(OutTree(DefaultContent, DefaultContent, <<>> :> 0, <<>> :> 0)
                 @@ TmpBase @@ t)
  /\ RunStart
  /\ docker = DockerIdle
  /\ cli = CliIdle
  /\ walk = WalkIdle
  /\ extract = ExtractIdle

NextTemp ==
  \/ ScanTemp
  \/ ProcessTempDir
  \/ ProcessTempDirSizeFails
  \/ ProcessTempDirRmFails
  \/ FinishTemp
  \/ \E i \in 1..Len(directories) : Vanish(directories[i])
  \/ Tick

SpecTemp == InitTemp /\ [][NextTemp]_vars

(***************************************************************************)
(* collectActivePaths of cleanup.ts on one string leaf of the manifest     *)
(***************************************************************************)
\* path.dirname (posix) of any path: a trailing separator is not looked at
DirnameOf(p) ==
  IF Len(p) > 1 /\ p[Len(p)] = Slash THEN Dirname(SubSeq(p, 1, Len(p) - 1))
  ELSE Dirname(p)

\* the output directories collectActivePaths is called with: relative,
\* relative and not normalized, above the working directory, absolute
WalkBases ==
  { <<"cdk.out">>,
    <<".", "/", "cdk.out">>,
    <<"..", "/", "cdk.out">>,
    <<"/", "w", "/", "cdk.out">>,
    <<"/", "w", "/", "proj", "/", "cdk.out">> }

\* the string leaves of the manifest
WalkLeaves ==
  { <<"asset.", "a">>,
    <<"asset.", "a", "/", "inner.txt">>,
    <<"asset.", "b", "/">>,
    <<"sub", "/", "dir", "/", "asset.", "c">>,
    <<"36.0.0">>,
    <<"..", "/", "x">>,
    <<"..", "/", "..", "/", "x">>,
    <<"/", "abs">> }

\* lines 35-39: the joined path is collected, the walk starts at its parent
WalkStart ==
  /\ walk.pc = "start"
  /\ LET fullPath == PathJoin(walk.basePath, walk.leaf)
     IN walk' = [walk EXCEPT !.fullPath = fullPath,
                             !.collected = {fullPath},
                             !.parent = DirnameOf(fullPath),
                             !.pc = "loop"]
  /\ UNCHANGED << fs, now, opts, run, pc, activePaths, assetEntries, dockerPaths,
                  slot, items, hashes, totalSize, removed, dockerCalls, fs0, hist,
                  tmpVars, docker, cli, warnings, vanished, extract >>

\* line 40: while (parent !== basePath && parent !== ".")
WalkGoesOn(w) == w.parent # w.basePath /\ w.parent # <<".">>

\* lines 41-42: one turn of the loop
WalkStep ==
  /\ walk.pc = "loop"
  /\ WalkGoesOn(walk)
  /\ walk' = [walk EXCEPT !.collected = @ \cup {walk.parent},
                          !.parent = DirnameOf(walk.parent)]
  /\ UNCHANGED << fs, now, opts, run, pc, activePaths, assetEntries, dockerPaths,
                  slot, items, hashes, totalSize, removed, dockerCalls, fs0, hist,
                  tmpVars, docker, cli, warnings, vanished, extract >>

\* line 40: the condition of the loop is false, the call returns
WalkReturn ==
  /\ walk.pc = "loop"
  /\ ~WalkGoesOn(walk)
  /\ walk' = [walk EXCEPT !.pc = "done"]
  /\ UNCHANGED << fs, now, opts, run, pc, activePaths, assetEntries, dockerPaths,
                  slot, items, hashes, totalSize, removed, dockerCalls, fs0, hist,
                  tmpVars, docker, cli, warnings, vanished, extract >>

InitWalk ==
  /\ opts = [mode |-> "assets", dryRun |-> TRUE, keepHours |-> 0]
  /\ fs = Tree(TmpBase)
  /\ RunStart
  /\ docker = DockerIdle
  /\ cli = CliIdle
  /\ extract = ExtractIdle
  /\ \E b \in WalkBases, l \in WalkLeaves :
       walk = [WalkIdle EXCEPT !.basePath = b, !.leaf = l, !.pc = "start"]

NextWalk ==
  \/ WalkStart
  \/ WalkStep
  \/ WalkReturn

SpecWalk == InitWalk /\ [][NextWalk]_vars

(***************************************************************************)
(* The hash of a planned entry: path.join, then extractDockerImageHash     *)
(***************************************************************************)
\* directory names an output directory may lie in or have
HashDirNames ==
  { <<"cdk.out">>, <<"out">>, <<"my", "asset.", "store">>, <<"asset.", "s">> }

\* the --outdir values: one or two directory names, relative or absolute
HashOutdirs ==
  LET rel == HashDirNames \cup { a \o <<Slash>> \o b : a, b \in HashDirNames }
  IN rel \cup { <<Slash>> \o r : r \in rel }

\* names of entries of the output directory
HashEntries ==
  { <<"asset.", "a">>, <<"asset.", "b", ".zip">>, <<"asset.">>, <<"not-an-asset">> }

\* asset-cleanup.ts line 45: const itemPath = path.join(outdir, entry)
ExtractJoin ==
  /\ extract.pc = "start"
  /\ extract' = [extract EXCEPT !.itemPath = PathJoin(extract.outdir, extract.entry),
                                !.pc = "joined"]
  /\ UNCHANGED << fs, now, opts, run, pc, activePaths, assetEntries, dockerPaths,
                  slot, items, hashes, totalSize, removed, dockerCalls, fs0, hist,
                  tmpVars, docker, cli, warnings, vanished, walk >>

\* asset-cleanup.ts line 76: extractDockerImageHash(item.path)
ExtractHash ==
  /\ extract.pc = "joined"
  /\ extract' = [extract EXCEPT !.hash = ExtractDockerImageHash(extract.itemPath),
                                !.pc = "done"]
  /\ UNCHANGED << fs, now, opts, run, pc, activePaths, assetEntries, dockerPaths,
                  slot, items, hashes, totalSize, removed, dockerCalls, fs0, hist,
                  tmpVars, docker, cli, warnings, vanished, walk >>

InitHash ==
  /\ opts = [mode |-> "assets", dryRun |-> TRUE, keepHours |-> 0]
  /\ fs = Tree(TmpBase)
  /\ RunStart
  /\ docker = DockerIdle
  /\ cli = CliIdle
  /\ walk = WalkIdle
  /\ \E o \in HashOutdirs, e \in HashEntries :
       extract = [ExtractIdle EXCEPT !.outdir = o, !.entry = e, !.pc = "start"]

NextHash ==
  \/ ExtractJoin
  \/ ExtractHash

SpecHash == InitHash /\ [][NextHash]_vars

(***************************************************************************)
(* Vocabulary of the properties                                            *)
(***************************************************************************)
InAssetsRun == opts.mode = "assets"

\* the run has computed its deletion plan
PlanBuilt == InAssetsRun /\ pc \in {"delete", "done"}

PlanPaths == { items[k].path : k \in 1..Len(items) }

\* the paths of f below the output root
BelowOutDir(f) == { p \in DOMAIN f : StartsWith(p, OutDir \o <<"/">>) }

\* the name of the direct child of the output root that p is, or is inside of
TopName(p) == Split(p)[Len(Split(OutDir)) + 1]

\* the direct children of the output root
TopLevel(f) == { p \in BelowOutDir(f) : Len(Split(p)) = Len(Split(OutDir)) + 1 }

HasAssetPrefix(name) == Len(name) >= 1 /\ name[1] = "asset."

\* the file or directory a path string denotes: the string without "", "."
\* and ".." segments and without a trailing separator
Denoted(str) == JoinSegs(NormSegs(Split(str), 1, <<>>, TRUE))

\* the descriptor files of f below the output root, at any depth
DescriptorFiles(f) ==
  { d \in BelowOutDir(f) :
      /\ f[d].kind = "file"
      /\ f[d].content.ok
      /\ Len(d) >= 1 /\ d[Len(d)] = ".assets.json" }

\* the paths the descriptor files of f reference, each value resolved
\* against the directory that holds its descriptor file
ReferencedPaths(f) ==
  UNION { { Denoted(Dirname(d) \o <<"/">> \o v) :
              v \in (f[d].content.files \cup f[d].content.dockerImages) \ {<<>>} }
          : d \in DescriptorFiles(f) }

\* p is q or a directory above q
IsAncestorOrSelf(p, q) == p = q \/ StartsWith(q, p \o <<"/">>)

\* the names the README lists as always protected
IsStructuralName(name) ==
  \/ name \in { <<"manifest.json">>, <<"tree.json">>, <<"cdk.out">> }
  \/ name[Len(name)] \in { ".template.json", ".assets.json" }

\* the calls of deleteDockerImages the current run has made
CallsOfRun == { c \in 1..Len(dockerCalls) : dockerCalls[c].run = run }

\* p is a directory of f that holds a Dockerfile
IsDockerEntry(f, p) ==
  /\ p \in DOMAIN f /\ f[p].kind = "dir"
  /\ (p \o <<"/", "Dockerfile">>) \in DOMAIN f

(***************************************************************************)
(* Claims                                                                  *)
(***************************************************************************)

\* C1 (prefix scoping): whatever the directory holds, the descriptors say,
\* the ages and keepHours are, a run of cleanupAssets leaves untouched every
\* direct child of the output root whose name does not start with "asset."
\* and everything inside such a child, nested asset.* entries included.
C1_PrefixScoping ==
  InAssetsRun =>
    \A p \in BelowOutDir(fs0) :
      ~HasAssetPrefix(TopName(p)) => (p \in DOMAIN fs /\ fs[p] = fs0[p])

\* a real run has deleted something while cdk.out/sub/asset.c is still there
C1_Witness ==
  /\ InAssetsRun /\ pc = "done" /\ ~opts.dryRun
  /\ removed # {}
  /\ DOMAIN fs # DOMAIN fs0
  /\ P(<<"sub", "/", "asset.", "c">>) \in DOMAIN fs

\* C2 (reference protection): the path a descriptor value denotes, resolved
\* against the directory of its descriptor file, is never deleted by the run.
C2_ReferencedNeverDeleted ==
  InAssetsRun =>
    \A q \in ReferencedPaths(fs0) : q \in DOMAIN fs0 => q \in DOMAIN fs

\* C3 (reference closure): no path a descriptor references, and no directory
\* above it up to the output root, is in the deletion plan.
C3_ReferenceClosure ==
  PlanBuilt =>
    \A q \in ReferencedPaths(fs0) :
      \A p \in PlanPaths : ~IsAncestorOrSelf(p, q)

\* C4 (dry-run non-mutation): with dryRun = true the file system stays what
\* it was when the run started, in cleanupAssets and cleanupTempDirectories.
C4_DryRunNonMutation ==
  opts.dryRun => fs = fs0

\* a dry run of cleanupAssets has ended with a non-empty plan
C4_Witness ==
  /\ InAssetsRun /\ opts.dryRun /\ pc = "done"
  /\ Len(items) > 0

\* C5 (dry-run plan equivalence): a real run started from the file system,
\* clock and keepHours of a dry run computes the plan the dry run computed:
\* the same paths, sizes, total and Docker image hashes.  The clock starts
\* at 0 and never goes back: now = 0 says both runs read the same clock.
C5_DryRunPlanEquivalence ==
  (PlanBuilt /\ run > 1 /\ hist[run - 1].dryRun /\ now = 0) =>
    /\ items = hist[run - 1].items
    /\ hashes = hist[run - 1].hashes
    /\ totalSize = hist[run - 1].totalSize

\* a real run has followed a dry run on the same clock reading, with items
\* and a Docker image hash in its plan, and has deleted them
C5_Witness ==
  /\ PlanBuilt /\ pc = "done" /\ run = 2 /\ hist[1].dryRun /\ now = 0
  /\ Len(items) > 1
  /\ Len(hashes) > 0
  /\ removed = 1..Len(items)

\* C6 (idempotence): a second real run, right after a real run, with the same
\* keepHours and no clock tick in between, has an empty deletion plan.
C6_Idempotence ==
  (InAssetsRun /\ run > 1 /\ ~hist[run - 1].dryRun /\ now = 0) => items = <<>>

\* C7 (recency boundary): with keepHours = K > 0 an entry that the reference
\* set does not hold is protected exactly when now minus its last-modified
\* time, read when it is checked, is at most K hours; protected entries are
\* not in the plan and stay on disk, the others are in the plan.
C7_RecencyBoundary ==
  (InAssetsRun /\ opts.keepHours > 0) =>
    \A i \in 1..Len(slot) :
      LET itemPath == OutDir \o <<"/">> \o assetEntries[i]
          young == slot[i].age <= opts.keepHours * 3600000
      IN (slot[i].st # "pending" /\ itemPath \notin activePaths) =>
           /\ (slot[i].st = "protected") <=> young
           /\ PlanBuilt => ((itemPath \in PlanPaths) <=> ~young)
           /\ young => itemPath \in DOMAIN fs

\* K = 1: one entry aged exactly one hour is protected, another aged one
\* hour and a millisecond has been deleted
C7_Witness ==
  /\ InAssetsRun /\ opts.keepHours = 1 /\ pc = "done" /\ ~opts.dryRun
  /\ \E i, j \in 1..Len(slot) :
       /\ slot[i].age = 3600000 /\ slot[i].st = "protected"
       /\ (OutDir \o <<"/">> \o assetEntries[i]) \notin activePaths
       /\ slot[j].age = 3600001 /\ slot[j].st = "sized"
       /\ (OutDir \o <<"/">> \o assetEntries[j]) \in PlanPaths
       /\ (OutDir \o <<"/">> \o assetEntries[j]) \notin DOMAIN fs

\* C8 (keepHours <= 0): the run does not fail and recency protects nothing:
\* every asset.* direct child of the output root that the reference set does
\* not hold is in the plan, whatever its last-modified time.
C8_NoRecencyWithoutKeepHours ==
  (PlanBuilt /\ opts.keepHours <= 0) =>
    \A p \in TopLevel(fs0) :
      (HasAssetPrefix(TopName(p)) /\ p \notin activePaths) => p \in PlanPaths

\* keepHours = -1: the plan holds an entry written at the very millisecond
\* of the run and an entry one hour old
C8_Witness ==
  /\ PlanBuilt /\ opts.keepHours < 0 /\ pc = "done"
  /\ \E p, q \in PlanPaths : fs0[p].mtime = 0 /\ fs0[q].mtime < 0

\* C9 (structural protection): a direct child of the output root named
\* manifest.json, tree.json or cdk.out, or whose name ends with
\* ".template.json" or ".assets.json", is never deleted by cleanupAssets.
C9_StructuralProtection ==
  InAssetsRun =>
    \A p \in TopLevel(fs0) : IsStructuralName(TopName(p)) => p \in DOMAIN fs

\* C10 (Docker image hashes): a run calls deleteDockerImages at most once,
\* every hash it hands over is the name, after "asset.", of an entry of the
\* plan that is a directory holding a Dockerfile, and there is no call when
\* the plan holds no such entry.
C10_DockerHashesFromPlan ==
  InAssetsRun =>
    /\ Cardinality(CallsOfRun) <= 1
    /\ \A c \in CallsOfRun :
         /\ dockerCalls[c].hashes # <<>>
         /\ \A n \in 1..Len(dockerCalls[c].hashes) :
              LET p == OutDir \o <<"/", "asset.">> \o dockerCalls[c].hashes[n]
              IN p \in PlanPaths /\ IsDockerEntry(fs0, p)

\* a call was made with one hash while the plan also holds an entry without
\* Dockerfile and a directory with a Dockerfile is protected
C10_Witness ==
  /\ InAssetsRun /\ pc = "done"
  /\ Cardinality(CallsOfRun) = 1
  /\ Len(items) > Len(hashes)
  /\ \E p \in TopLevel(fs) : IsDockerEntry(fs, p) /\ p \notin PlanPaths


\* C13: when the output root does not exist, or cannot be accessed,
\* cleanupAssets fails with "Directory not found" before any directory
\* listing, descriptor read, deletion or container-runtime call: the run is at
\* its start or has failed, nothing has been computed and nothing has changed.
C13_DirectoryNotFound ==
  (InAssetsRun /\ ~Exists(fs0, OutDir)) =>
    /\ pc \in {"start", "failed"}
    /\ fs = fs0
    /\ activePaths = {}
    /\ assetEntries = <<>>
    /\ items = <<>>
    /\ removed = {}
    /\ CallsOfRun = {}

\* a run on a missing output root has failed
C13_Witness ==
  /\ InAssetsRun
  /\ ~Exists(fs0, OutDir)
  /\ pc = "failed"

\* the direct children of the temporary directory
TmpChildren(f) == { p \in DOMAIN f : p # TmpDir /\ Dirname(p) = TmpDir }

\* the direct child of the temporary directory that p is, or is inside of
TmpChildOf(f, p) == CHOOSE c \in TmpChildren(f) : IsAncestorOrSelf(c, p)

\* a directory whose name starts with one of the three CDK prefixes
IsCdkTempDirectory(f, c) ==
  /\ f[c].kind = "dir"
  /\ c[Len(TmpDir) + 2] \in {"cdk.out", "cdk-", ".cdk"}

\* the reading of the clock when the current run started
RunStartClock == IF run = 1 THEN 0 ELSE hist[run - 1].clock

\* C17: a finished non-dry-run cleanupTempDirectories has deleted, with all
\* their contents, exactly the direct children of the temporary directory that
\* are directories, have a name starting with "cdk.out", "cdk-" or ".cdk", and
\* are not age-protected (keepHours <= 0, or older than keepHours hours when
\* the run started); a file, a directory with another name, a directory that
\* is at most keepHours hours old when the run ends, and everything outside
\* the temporary directory are unchanged.
C17_TempCleanupExact ==
  (opts.mode = "tmp" /\ pc = "done" /\ ~opts.dryRun) =>
    /\ DOMAIN fs \subseteq DOMAIN fs0
    /\ \A p \in DOMAIN fs0 :
         LET kept == p \in DOMAIN fs /\ fs[p] = fs0[p]
         IN IF ~StartsWith(p, TmpDir \o <<"/">>)
              THEN kept
              ELSE LET c == TmpChildOf(fs0, p)
                       limit == opts.keepHours * MsPerHour
                   IN /\ ~IsCdkTempDirectory(fs0, c) => kept
                      /\ (IsCdkTempDirectory(fs0, c) /\ opts.keepHours <= 0)
                           => p \notin DOMAIN fs
                      /\ (IsCdkTempDirectory(fs0, c) /\ opts.keepHours > 0
                            /\ RunStartClock - fs0[c].mtime > limit)
                           => p \notin DOMAIN fs
                      /\ (IsCdkTempDirectory(fs0, c) /\ opts.keepHours > 0
                            /\ now - fs0[c].mtime <= limit)
                           => kept

\* a finished non-dry-run with keepHours > 0 that has deleted a ".cdk"
\* directory with its descriptor-holding sibling and kept a recent "cdk-" one
C17_Witness ==
  /\ opts.mode = "tmp"
  /\ pc = "done"
  /\ ~opts.dryRun
  /\ opts.keepHours > 0
  /\ T(<<".cdk", "y">>) \in DOMAIN fs0 \ DOMAIN fs
  /\ T(<<"cdk.out", "Ab", "/", "Stack", ".assets.json">>) \in DOMAIN fs0 \ DOMAIN fs
  /\ T(<<"cdk-", "x", "/", "inner.txt">>) \in DOMAIN fs
  /\ T(<<"cdk.out", ".txt">>) \in DOMAIN fs

\* the bytes of the files at or below p
RECURSIVE SizeOfFiles(_, _)
SizeOfFiles(f, S) ==
  IF S = {} THEN 0
  ELSE LET q == CHOOSE x \in S : TRUE
       IN (IF f[q].kind = "file" THEN f[q].size ELSE 0) + SizeOfFiles(f, S \ {q})

TreeSize(f, p) == SizeOfFiles(f, { q \in DOMAIN f : IsAncestorOrSelf(p, q) })

\* the reading of the clock when entry i was checked
CheckedAt(i) == slot[i].age + fs0[OutDir \o <<"/">> \o assetEntries[i]].mtime

\* C20: whatever the order in which the concurrent per-entry protection
\* checks and size computations complete, the plan is the same complete,
\* duplicate-free set: it holds exactly the asset.* direct children of the
\* output root that are not in the reference set and not protected by recency
\* (an entry older than keepHours hours when the run started, or any entry
\* when keepHours <= 0, is in it; an entry at most keepHours hours old when
\* the plan is read is not), each once and with the size of its own files.
C20_PlanIndependentOfInterleaving ==
  PlanBuilt =>
    /\ \A j, k \in 1..Len(items) : items[j].path = items[k].path => j = k
    /\ \A k \in 1..Len(items) : items[k].size = TreeSize(fs0, items[k].path)
    /\ \A p \in PlanPaths :
         /\ p \in TopLevel(fs0)
         /\ HasAssetPrefix(TopName(p))
         /\ p \notin activePaths
    /\ \A p \in TopLevel(fs0) :
         LET limit == opts.keepHours * MsPerHour
         IN (HasAssetPrefix(TopName(p)) /\ p \notin activePaths) =>
              /\ (opts.keepHours <= 0 \/ RunStartClock - fs0[p].mtime > limit)
                   => p \in PlanPaths
              /\ (opts.keepHours > 0 /\ now - fs0[p].mtime <= limit)
                   => p \notin PlanPaths

\* a plan of two entries, built after the later entry of the listing was
\* checked before the earlier one
C20_Witness ==
  /\ PlanBuilt
  /\ Len(items) >= 2
  /\ \E i, j \in 1..Len(slot) : i < j /\ CheckedAt(i) > CheckedAt(j)

\* the descriptor files of f with a value that names p: the value, resolved
\* against the directory of its file and written without a trailing
\* separator, denotes p
Referencers(f, p) ==
  { d \in DescriptorFiles(f) :
      \E v \in (f[d].content.files \cup f[d].content.dockerImages) \ {<<>>} :
        /\ v[Len(v)] # "/"
        /\ Denoted(Dirname(d) \o <<"/">> \o v) = p }

RECURSIVE SumOfTreeSizes(_, _)
SumOfTreeSizes(f, S) ==
  IF S = {} THEN 0
  ELSE LET p == CHOOSE x \in S : TRUE
       IN TreeSize(f, p) + SumOfTreeSizes(f, S \ {p})

ReferenceSetFromDescriptors ==
  { Denoted(a) : a \in activePaths } = ReferencedPaths(fs0)

MalformedDescriptors(f) ==
  { d \in BelowOutDir(f) :
      /\ f[d].kind = "file"
      /\ d[Len(d)] = ".assets.json"
      /\ ~f[d].content.ok }

\* C15: a *.assets.json file that cannot be read or parsed does not abort the
\* run: once the scan is over, a warning names that file and the reference
\* set still holds what every other descriptor file references.
C15_MalformedDescriptorSkipped ==
  (InAssetsRun /\ MalformedDescriptors(fs0) # {}) =>
    /\ pc # "failed"
    /\ pc # "start" =>
         /\ MalformedDescriptors(fs0) \subseteq warnings
         /\ ReferencedPaths(fs0) \subseteq { Denoted(a) : a \in activePaths }

\* with a descriptor file that does not parse, the run has finished, has kept
\* an entry another descriptor file names and has deleted another entry
C15_Witness ==
  /\ InAssetsRun
  /\ MalformedDescriptors(fs0) # {}
  /\ pc = "done"
  /\ ~opts.dryRun
  /\ warnings # {}
  /\ \E p \in TopLevel(fs0) : Referencers(fs0, p) # {} /\ p \in DOMAIN fs
  /\ removed # {}

\* the tag has one of the two forms CDK gives the image of hash h
IsCdkTagOf(tag, h) ==
  \/ tag = <<"cdkasset-">> \o h \o <<":", "latest">>
  \/ /\ Len(tag) >= Len(h) + 1
     /\ SubSeq(tag, Len(tag) - Len(h), Len(tag)) = <<":">> \o h
     /\ \E i \in 1..Len(tag) : tag[i] = "container-assets"

\* C11: deleteDockerImages runs `image rm` only on tags that, for some hash h
\* of its input list, are "cdkasset-h:latest" or end with ":h" and contain
\* "container-assets"; an image whose tag has neither form for any input hash
\* stays in the store; and in a dry run no `image rm` is run at all.
C11_OnlyMatchingTagsRemoved ==
  /\ \A i \in 1..Len(docker.attempts) :
       \E k \in 1..Len(hashes) : IsCdkTagOf(docker.attempts[i], hashes[k])
  /\ \A i \in 1..Len(docker.initial) :
       (\A k \in 1..Len(hashes) : ~IsCdkTagOf(docker.initial[i].tag, hashes[k]))
         => \E j \in 1..Len(docker.images) : docker.images[j] = docker.initial[i]
  /\ opts.dryRun => (docker.attempts = <<>> /\ docker.images = docker.initial)

\* a real run has removed the local and the registry tag of one hash and has
\* left "my-custom-repo:<hash>", which ends with the hash, in the store
C11_Witness ==
  /\ pc = "done"
  /\ ~opts.dryRun
  /\ Len(docker.attempts) >= 2
  /\ \E i \in 1..Len(docker.attempts) : docker.attempts[i][1] = "ecr/"
  /\ \E k \in 1..Len(hashes), j \in 1..Len(docker.images) :
       docker.images[j].tag = <<"my-custom-repo", ":">> \o hashes[k]
  /\ Len(docker.images) < Len(docker.initial)

\* the tags of the store that have one of the two forms for an input hash
TagsOfInputHashes ==
  { docker.initial[i].tag : i \in
      { j \in 1..Len(docker.initial) :
          \E k \in 1..Len(hashes) : IsCdkTagOf(docker.initial[j].tag, hashes[k]) } }

\* C12: a failure of the container runtime stays inside deleteDockerImages.
\* The run never fails; deleteDockerImages is entered only after the planned
\* entries are deleted; when `image ls` fails, it warns, removes nothing and
\* returns 0; when an `image rm` fails, the tags after it are still
\* attempted; and the run ends with every planned entry deleted.
C12_RuntimeFailureContained ==
  /\ pc # "failed"
  /\ (docker.pc \in {"called", "removing", "returned"} /\ ~opts.dryRun) =>
       \A k \in 1..Len(items) : items[k].path \notin DOMAIN fs
  /\ (docker.pc = "returned" /\ ~docker.available) =>
       /\ docker.warned
       /\ docker.attempts = <<>>
       /\ docker.images = docker.initial
       /\ docker.result = 0
  /\ (docker.pc = "returned" /\ docker.available /\ ~opts.dryRun) =>
       TagsOfInputHashes = Range(docker.attempts)
  /\ docker.pc = "returned" => pc \in {"docker", "done"}

\* a real run has ended with its planned entries deleted after an `image rm`
\* failed and the `image rm` of a later tag succeeded
C12_Witness ==
  /\ pc = "done"
  /\ ~opts.dryRun
  /\ removed # {}
  /\ \E i, j \in 1..Len(docker.attempts) :
       /\ i < j
       /\ docker.attempts[i] \in docker.failed
       /\ docker.attempts[j] \notin docker.failed

\* s is made of digits, and of one at least
IsDigits(s) == s # <<>> /\ \A i \in 1..Len(s) : s[i] \in Digits

\* s is a decimal numeral: an optional "-", then digits with at most one "."
\* among them
IsNumeral(s) ==
  LET u == IF s # <<>> /\ Head(s) = "-" THEN Tail(s) ELSE s
      dots == { i \in 1..Len(u) : u[i] = "." }
  IN /\ Cardinality(dots) <= 1
     /\ IsDigits(SelectSeq(u, LAMBDA c : c # "."))

\* s is the numeral of a number below zero
IsNegativeNumeral(s) ==
  /\ IsNumeral(s)
  /\ Head(s) = "-"
  /\ \E i \in 1..Len(s) : s[i] \in Digits \ {"0"}

\* C18: a --keep-hours value that is negative or is not a number is rejected:
\* neither cleanupAssets nor cleanupTempDirectories is called, and the
\* process exits with a non-zero status.
C18_KeepHoursRejected ==
  (IsNegativeNumeral(cli.keepHoursArg) \/ ~IsNumeral(cli.keepHoursArg)) =>
    /\ cli.called = "none"
    /\ cli.pc = "exited" => cli.exitCode # 0

\* C19: with --cleanup-tmp and an --outdir other than the default "cdk.out",
\* neither cleanupAssets nor cleanupTempDirectories is called, nothing is
\* scanned, and the process exits with a non-zero status and an error message.
C19_CleanupTmpWithOutdirRejected ==
  (cli.pc # "idle" /\ cli.cleanupTmp /\ cli.outdirArg # <<"cdk.out">>) =>
    /\ cli.called = "none"
    /\ pc = "start" /\ fs = fs0 /\ directories = <<>> /\ activePaths = {}
    /\ cli.pc \notin {"start", "parsed"} =>
         (cli.pc = "exited" /\ cli.exitCode # 0 /\ cli.stderr # <<>>)

\* a valid --keep-hours, --cleanup-tmp and a custom --outdir: the process has
\* exited with the message about the two options
C19_Witness ==
  /\ cli.cleanupTmp
  /\ cli.outdirArg = <<".", "/", "custom-dir">>
  /\ cli.keepHoursArg = <<"5">>
  /\ cli.pc = "exited"
  /\ cli.stderr = << "Error: --cleanup-tmp and --outdir cannot be used together" >>

\* a descriptor file in a subdirectory of the output root references something
NestedDescriptorInUse(f) ==
  \E d \in DescriptorFiles(f) :
    /\ Len(Split(d)) > Len(Split(OutDir)) + 1
    /\ f[d].content.files \cup f[d].content.dockerImages # {}

\* C21: the reference set is complete, built from every descriptor file of
\* the whole tree, before the protection check of the first candidate starts
\* (each step that settles a check or a size finds it complete), and no step
\* after its collection changes it until the run ends.
C21_ReferenceSetFrozen ==
  [][ /\ (pc = "check" /\ slot' # slot) => ReferenceSetFromDescriptors
      /\ (InAssetsRun /\ pc # "start") => activePaths' = activePaths ]_vars

C21_Witness ==
  /\ InAssetsRun /\ pc = "done"
  /\ NestedDescriptorInUse(fs0)
  /\ \E i \in 1..Len(slot) : slot[i].st = "protected"
  /\ \E i \in 1..Len(slot) : slot[i].st = "sized"
  /\ ReferenceSetFromDescriptors

\* the candidates of the run: the paths of the entries the listing kept
CandidatePaths == { OutDir \o <<"/">> \o assetEntries[i] : i \in 1..Len(assetEntries) }

\* f without what another process has removed
WithoutVanished(f) ==
  [q \in { x \in DOMAIN f : \A v \in vanished : ~IsAncestorOrSelf(v, x) } |-> f[q]]

\* the run has removed something or has asked for the removal of images
DeletionIssued ==
  \/ removed # {}
  \/ fs # WithoutVanished(fs0)
  \/ \E c \in CallsOfRun : ~dockerCalls[c].dryRun

\* C22: no deletion, of a file-system entry or of a container image, is
\* issued before reference collection, Docker-asset classification and the
\* protection check and sizing of every candidate are over; a run in which
\* one of these steps fails ends with nothing deleted by it; and the
\* Dockerfile check has looked at each candidate as it was when the run
\* started, never at a directory the run is deleting.
C22_DeletionAfterPlanning ==
  InAssetsRun =>
    /\ DeletionIssued =>
         /\ pc \in {"delete", "docker", "done"}
         /\ \A i \in 1..Len(assetEntries) : slot[i].st \in {"protected", "sized"}
    /\ pc = "failed" => ~DeletionIssued
    /\ pc \in {"start", "list"} => ~DeletionIssued
    /\ pc \notin {"start", "list", "failed"} =>
         dockerPaths = { p \in CandidatePaths : IsDockerEntry(fs0, p) }

C22_Witness ==
  /\ InAssetsRun /\ pc = "failed" /\ ~opts.dryRun
  /\ vanished # {}
  /\ \E i \in 1..Len(assetEntries) : slot[i].st = "sized"
  /\ fs = WithoutVanished(fs0)

\* C23: a candidate that disappears while the candidates are being evaluated
\* does not make cleanupAssets fail.
C23_VanishedCandidateAbsorbed ==
  (InAssetsRun /\ vanished # {}) => pc # "failed"

\* C24: after a real run with keepHours <= 0 that ended without error, every
\* asset.* direct child of the output root that is still there is referenced
\* by a descriptor file that is still there: none survives only because of a
\* descriptor file inside an entry the run deleted.
C24_SurvivorsStillReferenced ==
  (InAssetsRun /\ pc = "done" /\ ~opts.dryRun /\ opts.keepHours <= 0) =>
    \A p \in TopLevel(fs) :
      HasAssetPrefix(TopName(p)) => p \in ReferencedPaths(fs)

\* C25: building the reference set terminates: the walk of collectActivePaths
\* up the ancestors of a string leaf reaches its stop condition, also for a
\* leaf that resolves outside the output root; it is never at a directory
\* that is its own parent with the loop still going on.
C25_WalkReachesStop ==
  walk.pc = "loop" => ~(WalkGoesOn(walk) /\ DirnameOf(walk.parent) = walk.parent)

\* the text "asset." occurs in str with at least one character after it
HasAssetDot(str) == \E i \in 1..(Len(str) - 1) : str[i] = "asset."

\* C26: for an entry named asset.<H> the identifier extracted from its path,
\* the one handed to deleteDockerImages, is exactly <H>, whatever the path of
\* the output directory; and extractDockerImageHash returns null for a path
\* in which "asset." is nowhere followed by a character.
C26_HashOfEntryName ==
  extract.pc = "done" =>
    /\ (HasAssetPrefix(extract.entry) /\ Len(extract.entry) > 1) =>
         extract.hash = Tail(extract.entry)
    /\ ~HasAssetDot(extract.itemPath) => extract.hash = NoHash

\* p holds a file in a subdirectory and something that is neither a file nor
\* a directory
IsDeepEntry(f, p) ==
  /\ \E q \in DOMAIN f : StartsWith(q, p \o <<"/">>) /\ f[q].kind = "other"
  /\ \E q \in DOMAIN f :
       /\ StartsWith(q, p \o <<"/">>) /\ f[q].kind = "file"
       /\ Len(Split(q)) > Len(Split(p)) + 1

\* C27: the size recorded for a planned entry is its recursive size: the byte
\* length of a file, the sum over all the descendants of a directory, 0 for
\* anything else; the reported total is the sum of the sizes of the planned
\* entries; and a size is computed only for an entry selected for deletion,
\* never for a protected one.
C27_RecursiveSizes ==
  InAssetsRun =>
    /\ \A i \in 1..Len(slot) :
         IF slot[i].st = "sized"
           THEN slot[i].size = TreeSize(fs0, OutDir \o <<"/">> \o assetEntries[i])
           ELSE slot[i].size = 0
    /\ PlanBuilt =>
         /\ \A k \in 1..Len(items) : items[k].size = TreeSize(fs0, items[k].path)
         /\ \A i \in 1..Len(slot) :
              slot[i].st = "protected" =>
                (OutDir \o <<"/">> \o assetEntries[i]) \notin PlanPaths
         /\ totalSize = SumOfTreeSizes(fs0, PlanPaths)

C27_Witness ==
  /\ PlanBuilt /\ pc = "done"
  /\ \E k \in 1..Len(items) : IsDeepEntry(fs0, items[k].path) /\ items[k].size > 4
  /\ \E i \in 1..Len(slot) : slot[i].st = "protected"
  /\ totalSize > 0

\* the place of a name in the listing of the output root
ListingPos(name) == CHOOSE n \in 1..Len(ListingOrder) : ListingOrder[n] = name

\* C28: for a given listing of the output root, the entries of the plan, and
\* the hashes handed to deleteDockerImages, are in the order of the listing,
\* in whatever order the concurrent per-entry evaluations completed.
C28_PlanInListingOrder ==
  PlanBuilt =>
    /\ \A k, l \in 1..Len(items) :
         k < l => ListingPos(TopName(items[k].path)) < ListingPos(TopName(items[l].path))
    /\ \A k, l \in 1..Len(hashes) :
         k < l => ListingPos(<<"asset.">> \o hashes[k]) < ListingPos(<<"asset.">> \o hashes[l])
    /\ \A c \in CallsOfRun : dockerCalls[c].hashes = hashes

\* two Docker image assets are planned and handed over, the later one of the
\* listing having been evaluated first
C28_Witness ==
  /\ PlanBuilt /\ pc = "done"
  /\ Len(hashes) = 2
  /\ CallsOfRun # {}
  /\ CheckedAt(1) > CheckedAt(2)

InTempRun == opts.mode = "tmp"

\* the entries of the log with a given outcome
LoggedAs(what) == { n \in 1..Len(tempLog) : tempLog[n].what = what }

RECURSIVE SumOfLogged(_)
SumOfLogged(S) ==
  IF S = {} THEN 0
  ELSE LET n == CHOOSE x \in S : TRUE
       IN tempLog[n].size + SumOfLogged(S \ {n})

\* C29: an error while one temporary directory is checked, sized or removed
\* does not end cleanupTempDirectories: the call does not fail, the failing
\* directory is skipped, and every other matching directory has been gone
\* through when the call returns; in a real run those that are there and not
\* age-protected have been removed.
C29_TempErrorsContained ==
  InTempRun =>
    /\ pc # "failed"
    /\ pc = "done" =>
         /\ Len(tempLog) = Len(directories)
         /\ \A n \in 1..Len(tempLog) : tempLog[n].dir = directories[n]
         /\ \A n \in 1..Len(tempLog) :
              (~opts.dryRun /\ Exists(fs, tempLog[n].dir)) =>
                \/ tempLog[n].what = "rmError"
                \/ /\ tempLog[n].what = "protected"
                   /\ opts.keepHours > 0
                   /\ RunStartClock - fs[tempLog[n].dir].mtime <= opts.keepHours * 3600000

\* one directory failed and a directory after it was cleaned
C29_Witness ==
  /\ InTempRun /\ pc = "done" /\ ~opts.dryRun
  /\ \E n, m \in 1..Len(tempLog) :
       /\ n < m
       /\ tempLog[n].what \in {"sizeError", "rmError"}
       /\ tempLog[m].what = "cleaned"

\* C30: the total size cleanupTempDirectories reports is the sum of the sizes
\* of exactly the directories it counts as cleaned; a directory whose
\* processing fails adds to neither the count nor the total.
C30_TotalMatchesCleaned ==
  (InTempRun /\ pc = "done" /\ totalCleaned > 0) =>
    /\ totalCleaned = Cardinality(LoggedAs("cleaned"))
    /\ totalSize = SumOfLogged(LoggedAs("cleaned"))

====
